---- MODULE Spec2Model ----
(***************************************************************************)
(* Word-to-JSON converter: the paragraph parser of                         *)
(* convert_docx_to_json.py (batch flavour) and of streamlit_app.py         *)
(* (interactive flavour, with package validation), convert_single_file     *)
(* and convert_folder.                                                     *)
(*                                                                         *)
(* A path is a sequence of characters.  A paragraph text is a sequence of  *)
(* symbols: the whitespace " ", the separator ":", or a word of characters *)
(* that are neither; no paragraph of the model holds two adjacent words of *)
(* more than one character, so equal texts are equal sequences.            *)
(***************************************************************************)
EXTENDS Naturals, Sequences, FiniteSets, TLC

VARIABLES
    pc,               \* position of the modelled call
    doc_file,         \* the document source handed to a single-document call
    output_path,      \* convert_single_file's output_path argument
    result,           \* the value the call returned
    ui,               \* st.error / st.warning messages, in order
    opened,           \* Document(...) was called on the source
    written,          \* files written with open(..., "w"), in order
    walk,             \* the files os.walk enumerates, in order
    json_folder,      \* convert_folder's json_folder argument
    idx,              \* position of convert_folder's loop in walk
    converted_files,  \* convert_folder's converted_files list
    parse_calls,      \* per enumerated file: calls of parse_doc_to_dict
    printed           \* messages printed by the batch module, in order

vars == <<pc, doc_file, output_path, result, ui, opened, written, walk,
          json_folder, idx, converted_files, parse_calls, printed>>

(***************************************************************************)
(* Bounds                                                                  *)
(***************************************************************************)
MaxLineLen == 4     \* symbols of a generated paragraph
MaxParas == 3       \* paragraphs of a document built from ParagraphTexts
MaxPathParts == 3   \* parts of a generated input path
MaxFiles == 3       \* files under the source root of a batch

BoundedSeq(S, n) == UNION {[1..k -> S] : k \in 0..n}

RECURSIVE Flatten(_)
Flatten(ss) == IF ss = <<>> THEN <<>> ELSE Head(ss) \o Flatten(Tail(ss))

(***************************************************************************)
(* Python values                                                           *)
(***************************************************************************)
None == [none |-> TRUE]

\* a str value and a list-of-str value of the content dict
Str(s) == [t |-> "str", v |-> <<s>>]
List(l) == [t |-> "list", v |-> l]

EmptyDict == [k \in {} |-> None]

DictSet(d, k, v) == [y \in DOMAIN d \cup {k} |-> IF y = k THEN v ELSE d[y]]

FREE_TEXT == <<"free_text">>

(***************************************************************************)
(* str.strip, "in", str.split(":", 1)                                      *)
(***************************************************************************)
IsSpace(c) == c = " "

RECURSIVE lstrip(_)
lstrip(s) == IF s # <<>> /\ IsSpace(Head(s)) THEN lstrip(Tail(s)) ELSE s

RECURSIVE rstrip(_)
rstrip(s) ==
    IF s # <<>> /\ IsSpace(s[Len(s)]) THEN rstrip(SubSeq(s, 1, Len(s) - 1)) ELSE s

strip(s) == rstrip(lstrip(s))

contains_colon(s) == \E i \in 1..Len(s) : s[i] = ":"

find_colon(s) == CHOOSE i \in 1..Len(s) : s[i] = ":" /\ \A j \in 1..(i - 1) : s[j] # ":"

rfind_colon(s) == CHOOSE i \in 1..Len(s) : s[i] = ":" /\ \A j \in (i + 1)..Len(s) : s[j] # ":"

\* faulty variant: splits at the last ":" (str.rsplit)
rsplit_colon(line) ==
    LET i == rfind_colon(line)
    IN  <<SubSeq(line, 1, i - 1), SubSeq(line, i + 1, Len(line))>>

\* line.split(":", 1) of a line that contains ":"
split_colon(line) ==
    LET i == find_colon(line)
    IN  <<SubSeq(line, 1, i - 1), SubSeq(line, i + 1, Len(line))>>

(***************************************************************************)
(* Document sources                                                        *)
(***************************************************************************)
DOCUMENT_XML == "word/document.xml"
CONTENT_TYPES == "[Content_Types].xml"

required_files == <<DOCUMENT_XML, CONTENT_TYPES>>

RequiredSet == {required_files[i] : i \in 1..Len(required_files)}

\* Document(source) returns a document: the source is a package that holds
\* the parts python-docx reads and its XML is well formed
DocumentOpens(src) ==
    /\ src.zip = "ok"
    /\ RequiredSet \subseteq src.entries
    /\ src.xml_ok

DOCX == <<".", "d", "o", "c", "x">>
JSON == <<".", "j", "s", "o", "n">>
LOCK == <<"~", "$">>

\* os.path.basename
basename(p) ==
    LET seps == {i \in 1..Len(p) : p[i] = "/"}
    IN  IF seps = {} THEN p
        ELSE SubSeq(p, (CHOOSE i \in seps : \A j \in seps : j <= i) + 1, Len(p))

startswith(s, prefix) ==
    Len(s) >= Len(prefix) /\ SubSeq(s, 1, Len(prefix)) = prefix

endswith(s, suffix) ==
    Len(s) >= Len(suffix) /\ SubSeq(s, Len(s) - Len(suffix) + 1, Len(s)) = suffix

is_lock_file(doc_path) == startswith(basename(doc_path), LOCK)

(***************************************************************************)
(* convert_docx_to_json.py: WordToJsonConverter.parse_doc_to_dict          *)
(***************************************************************************)
\* faulty variant: a repeated key keeps its first value
batch_store_kv_keep_first(content, line) ==
    LET kv == split_colon(line)
        key == strip(kv[1])
    IN  IF key \in DOMAIN content THEN content
        ELSE DictSet(content, key, Str(strip(kv[2])))

\* key, value = line.split(":", 1); data["content"][key.strip()] = value.strip()
batch_store_kv(content, line) ==
    LET kv == split_colon(line)
    IN  DictSet(content, strip(kv[1]), Str(strip(kv[2])))

\* the loop over doc.paragraphs; list.append on a str value raises
\* AttributeError, which leaves the loop
RECURSIVE batch_paragraphs(_, _)
batch_paragraphs(content, paras) ==
    IF paras = <<>> THEN [raised |-> FALSE, content |-> content]
    ELSE LET line == strip(Head(paras))
         IN  IF line = <<>> THEN batch_paragraphs(content, Tail(paras))
             ELSE IF contains_colon(line)
                  THEN batch_paragraphs(batch_store_kv(content, line), Tail(paras))
             ELSE IF FREE_TEXT \notin DOMAIN content
                  THEN batch_paragraphs(DictSet(content, FREE_TEXT, List(<<line>>)),
                                        Tail(paras))
             ELSE IF content[FREE_TEXT].t = "list"
                  THEN batch_paragraphs(
                           DictSet(content, FREE_TEXT,
                                   List(Append(content[FREE_TEXT].v, line))),
                           Tail(paras))
             ELSE [raised |-> TRUE, content |-> content]

\* the try block: the data returned, or "raise" when an exception leaves it
batch_try(doc_path, src) ==
    IF ~DocumentOpens(src) THEN "raise"
    ELSE LET r == batch_paragraphs(EmptyDict, src.paragraphs)
         IN  IF r.raised THEN "raise" ELSE "data"

batch_data(doc_path, src) ==
    [metadata |-> [source_file |-> basename(doc_path),
                   converted_at |-> "now",
                   total_paragraphs |-> Len(src.paragraphs)],
     content |-> batch_paragraphs(EmptyDict, src.paragraphs).content]

\* faulty variant: no except branch, the exception leaves the call
batch_outcome_uncaught(doc_path, src) ==
    IF is_lock_file(doc_path) THEN "lock"
    ELSE IF batch_try(doc_path, src) = "raise" THEN "raise"
    ELSE "data"

\* the outcome of a call: "lock", "error" (the except branch), or "data"
batch_outcome(doc_path, src) ==
    IF is_lock_file(doc_path) THEN "lock"
    ELSE IF batch_try(doc_path, src) = "raise" THEN "error"
    ELSE "data"

\* the value returned
batch_parse_doc_to_dict(doc_path, src) ==
    IF batch_outcome(doc_path, src) = "data" THEN batch_data(doc_path, src) ELSE None

\* what the call prints
batch_parse_prints(doc_path, src) ==
    IF batch_outcome(doc_path, src) = "lock"
        THEN <<[msg |-> "Skipping lock file", path |-> doc_path]>>
    ELSE IF batch_outcome(doc_path, src) = "error"
        THEN <<[msg |-> "Error processing", path |-> doc_path]>>
    ELSE <<>>

(***************************************************************************)
(* streamlit_app.py: validate_docx_file and parse_doc_to_dict              *)
(***************************************************************************)
\* the required files absent from the package, by position in required_files
missing_required(src) ==
    {i \in 1..Len(required_files) : required_files[i] \notin src.entries}

\* faulty variant: any package that opens is valid
validate_any_zip(src) ==
    IF src.zip = "ioerror" THEN [valid |-> FALSE, msg |-> "File validation error", entry |-> ""]
    ELSE IF src.zip = "badzip"
        THEN [valid |-> FALSE, msg |-> "File is not a valid ZIP/DOCX file", entry |-> ""]
    ELSE [valid |-> TRUE, msg |-> "Valid DOCX file", entry |-> ""]

\* the pair (is_valid, message); the message of a missing entry names the
\* first one of required_files that is absent
validate_docx_file(src) ==
    IF src.zip = "ioerror" THEN [valid |-> FALSE, msg |-> "File validation error", entry |-> ""]
    ELSE IF src.zip = "badzip"
        THEN [valid |-> FALSE, msg |-> "File is not a valid ZIP/DOCX file", entry |-> ""]
    ELSE IF missing_required(src) # {}
        THEN [valid |-> FALSE, msg |-> "Missing required file",
              entry |-> required_files[CHOOSE i \in missing_required(src) :
                                           \A j \in missing_required(src) : i <= j]]
    ELSE [valid |-> TRUE, msg |-> "Valid DOCX file", entry |-> ""]

\* faulty variant: paragraph_count is incremented before the blank check
RECURSIVE st_paragraphs_count_all(_, _, _)
st_paragraphs_count_all(content, paragraph_count, paras) ==
    IF paras = <<>>
        THEN [raised |-> FALSE, content |-> content, paragraph_count |-> paragraph_count]
    ELSE LET line == strip(Head(paras))
         IN  IF line = <<>>
                  THEN st_paragraphs_count_all(content, paragraph_count + 1, Tail(paras))
             ELSE IF contains_colon(line)
                  THEN st_paragraphs_count_all(
                           DictSet(content, strip(split_colon(line)[1]),
                                   Str(strip(split_colon(line)[2]))),
                           paragraph_count + 1, Tail(paras))
             ELSE IF FREE_TEXT \notin DOMAIN content
                  THEN st_paragraphs_count_all(
                           DictSet(content, FREE_TEXT, List(<<line>>)),
                           paragraph_count + 1, Tail(paras))
             ELSE IF content[FREE_TEXT].t = "list"
                  THEN st_paragraphs_count_all(
                           DictSet(content, FREE_TEXT,
                                   List(Append(content[FREE_TEXT].v, line))),
                           paragraph_count + 1, Tail(paras))
             ELSE [raised |-> TRUE, content |-> content,
                   paragraph_count |-> paragraph_count + 1]

\* the loop over doc.paragraphs with its counter of non-blank paragraphs
RECURSIVE st_paragraphs(_, _, _)
st_paragraphs(content, paragraph_count, paras) ==
    IF paras = <<>>
        THEN [raised |-> FALSE, content |-> content, paragraph_count |-> paragraph_count]
    ELSE LET line == strip(Head(paras))
         IN  IF line = <<>> THEN st_paragraphs(content, paragraph_count, Tail(paras))
             ELSE IF contains_colon(line)
                  THEN st_paragraphs(
                           DictSet(content, strip(split_colon(line)[1]),
                                   Str(strip(split_colon(line)[2]))),
                           paragraph_count + 1, Tail(paras))
             ELSE IF FREE_TEXT \notin DOMAIN content
                  THEN st_paragraphs(DictSet(content, FREE_TEXT, List(<<line>>)),
                                     paragraph_count + 1, Tail(paras))
             ELSE IF content[FREE_TEXT].t = "list"
                  THEN st_paragraphs(
                           DictSet(content, FREE_TEXT,
                                   List(Append(content[FREE_TEXT].v, line))),
                           paragraph_count + 1, Tail(paras))
             ELSE [raised |-> TRUE, content |-> content,
                   paragraph_count |-> paragraph_count + 1]

st_data(src) ==
    LET r == st_paragraphs(EmptyDict, 0, src.paragraphs)
    IN  [metadata |-> [source_file |-> src.name,
                       converted_at |-> "now",
                       total_paragraphs |-> Len(src.paragraphs),
                       content_paragraphs |-> r.paragraph_count],
         content |-> r.content]

\* the call: the value returned, whether Document() was called, and the
\* messages shown
st_parse_doc_to_dict(src) ==
    LET v == validate_docx_file(src)
    IN  IF ~v.valid
            THEN [result |-> None, opened |-> FALSE,
                  ui |-> <<[level |-> "error", name |-> src.name,
                            msg |-> v.msg, entry |-> v.entry]>>]
        ELSE IF ~DocumentOpens(src) \/ st_paragraphs(EmptyDict, 0, src.paragraphs).raised
            THEN [result |-> None, opened |-> TRUE,
                  ui |-> <<[level |-> "error", name |-> src.name,
                            msg |-> "Error processing", entry |-> ""]>>]
        ELSE [result |-> st_data(src), opened |-> TRUE,
              ui |-> IF st_data(src).content = EmptyDict
                     THEN <<[level |-> "warning", name |-> src.name,
                             msg |-> "No content found", entry |-> ""]>>
                     ELSE <<>>]

(***************************************************************************)
(* convert_docx_to_json.py: convert_single_file                            *)
(***************************************************************************)
PathVal(p) == [path |-> p]

\* "not output_path": None and the empty string are falsy
falsy_path(p) == p = None \/ p.path = <<>>

\* faulty variant: data with an empty content mapping counts as no data
truthy_content(data) == data # None /\ data.content # EmptyDict

\* "if data": None is falsy, a dict is truthy when it holds a key
truthy(data) == data # None /\ DOMAIN data # {}

\* str.replace(old, new): every non-overlapping occurrence, left to right
RECURSIVE replace(_, _, _)
replace(s, old, new) ==
    IF Len(s) < Len(old) THEN s
    ELSE IF startswith(s, old)
        THEN new \o replace(SubSeq(s, Len(old) + 1, Len(s)), old, new)
    ELSE <<Head(s)>> \o replace(Tail(s), old, new)

single_output_path(input_path, out) ==
    IF falsy_path(out) THEN replace(input_path, DOCX, JSON) ELSE out.path

(***************************************************************************)
(* Inputs of the single-document calls                                     *)
(***************************************************************************)
Alphabet == {" ", ":", "a", "b"}

AllLines == BoundedSeq(Alphabet, MaxLineLen)

ParagraphTexts ==
    { <<>>,
      <<"Name", ":", " ", "John", " ", "Doe">>,
      <<" ", "Name", " ", ":", "Jane">>,
      <<"likes", " ", "hiking">>,
      <<"free_text", ":", " ", "x">>,
      <<"Note", ":", " ", "call", " ", "at", " ", "9", ":", "30">> }

Documents == {<<l>> : l \in AllLines} \cup BoundedSeq(ParagraphTexts, MaxParas)

Package(name, zip, entries, xml_ok, paragraphs) ==
    [name |-> name, zip |-> zip, entries |-> entries, xml_ok |-> xml_ok,
     paragraphs |-> paragraphs]

NAME_A == <<"a">> \o DOCX
NAME_LOCK == LOCK \o <<"a">> \o DOCX

\* sources Document() cannot read: not a package, an unreadable stream, a
\* package without a required file, a package with corrupt XML
UnreadableSources(name) ==
    {Package(name, "badzip", {}, FALSE, <<>>), Package(name, "ioerror", {}, FALSE, <<>>),
     Package(name, "ok", RequiredSet, FALSE, <<>>)}
    \cup {Package(name, "ok", e, TRUE, <<>>) : e \in (SUBSET RequiredSet) \ {RequiredSet}}

ReadableSources(name) ==
    {Package(name, "ok", RequiredSet, TRUE, d) : d \in Documents}

PathParts == {<<"a">>, DOCX, <<"/">>, <<".">>, LOCK}

InputPaths == {Flatten(ps) : ps \in BoundedSeq(PathParts, MaxPathParts)} \ {<<>>}

OUT_JSON == <<"o">> \o JSON

PathSources(name) ==
    {Package(name, "badzip", {}, FALSE, <<>>)}
    \cup {Package(name, "ok", RequiredSet, TRUE, d) : d \in {<<>>, <<<<"a", ":", "b">>>>}}

BatchIdle ==
    /\ walk = <<>>
    /\ json_folder = None
    /\ idx = 0
    /\ converted_files = <<>>
    /\ parse_calls = <<>>
    /\ printed = <<>>

Init ==
    /\ pc = "ready"
    /\ \/ /\ doc_file \in UNION {UnreadableSources(n) \cup ReadableSources(n) :
                                   n \in {NAME_A, NAME_LOCK}}
          /\ output_path = None
       \/ /\ doc_file \in UNION {PathSources(n) : n \in InputPaths}
          /\ output_path \in {None, PathVal(<<>>), PathVal(OUT_JSON)}
    /\ result = None
    /\ ui = <<>>
    /\ opened = FALSE
    /\ written = <<>>
    /\ BatchIdle

\* convert_docx_to_json.py parse_doc_to_dict(doc_path)
BatchParse ==
    /\ pc = "ready"
    /\ pc' = "parsed_batch"
    /\ result' = batch_parse_doc_to_dict(doc_file.name, doc_file)
    /\ opened' = ~is_lock_file(doc_file.name)
    /\ printed' = printed \o batch_parse_prints(doc_file.name, doc_file)
    /\ UNCHANGED <<doc_file, output_path, ui, written, walk, json_folder, idx,
                   converted_files, parse_calls>>

\* streamlit_app.py parse_doc_to_dict(doc_file)
InteractiveParse ==
    /\ pc = "ready"
    /\ pc' = "parsed_st"
    /\ result' = st_parse_doc_to_dict(doc_file).result
    /\ opened' = st_parse_doc_to_dict(doc_file).opened
    /\ ui' = ui \o st_parse_doc_to_dict(doc_file).ui
    /\ UNCHANGED <<doc_file, output_path, written, walk, json_folder, idx,
                   converted_files, parse_calls, printed>>

\* convert_docx_to_json.py convert_single_file(input_path, output_path)
ConvertSingleFile ==
    /\ pc = "ready"
    /\ pc' = "converted"
    /\ LET out == single_output_path(doc_file.name, output_path)
           data == batch_parse_doc_to_dict(doc_file.name, doc_file)
       IN  /\ written' = IF truthy(data)
                         THEN Append(written, [path |-> out, data |-> data])
                         ELSE written
           /\ result' = IF truthy(data) THEN PathVal(out) ELSE None
    /\ opened' = ~is_lock_file(doc_file.name)
    /\ printed' = printed \o batch_parse_prints(doc_file.name, doc_file)
    /\ UNCHANGED <<doc_file, output_path, ui, walk, json_folder, idx,
                   converted_files, parse_calls>>

Next == BatchParse \/ InteractiveParse \/ ConvertSingleFile

Spec == Init /\ [][Next]_vars

(***************************************************************************)
(* Properties of the single-document calls                                 *)
(***************************************************************************)
Spaces(n) == [i \in 1..n |-> " "]

Trimmed(s) == s = <<>> \/ (s[1] # " " /\ s[Len(s)] # " ")

\* k is t without its leading and trailing whitespace
IsTrimOf(t, k) ==
    /\ Trimmed(k)
    /\ Len(k) <= Len(t)
    /\ \E a \in 0..(Len(t) - Len(k)) :
           t = Spaces(a) \o k \o Spaces(Len(t) - Len(k) - a)

Blank(t) == \A i \in 1..Len(t) : t[i] = " "

HasSeparator(t) == \E i \in 1..Len(t) : t[i] = ":"

\* t reads k ":" v around its first ":", whitespace aside
IsSplitOf(t, k, v) ==
    \E i \in 1..Len(t) :
        /\ t[i] = ":"
        /\ ~HasSeparator(SubSeq(t, 1, i - 1))
        /\ IsTrimOf(SubSeq(t, 1, i - 1), k)
        /\ IsTrimOf(SubSeq(t, i + 1, Len(t)), v)

\* k is the key of t: the trimmed text before its first ":"
HasKey(t, k) ==
    \E i \in 1..Len(t) :
        /\ t[i] = ":"
        /\ ~HasSeparator(SubSeq(t, 1, i - 1))
        /\ IsTrimOf(SubSeq(t, 1, i - 1), k)

Paragraphs == doc_file.paragraphs

Parsed == pc \in {"parsed_batch", "parsed_st"} /\ result # None

\* C4: in a Record of either parser, every paragraph that holds ":" is
\* split at its first ":" only: its key, the trimmed text before that ":",
\* is a key of content, and the last such paragraph of the document leaves
\* under its key the trimmed remainder, further ":" included.
C4_SplitAtFirstColon ==
    Parsed =>
        \A j \in 1..Len(Paragraphs) :
            HasSeparator(Paragraphs[j]) =>
                \E k \in DOMAIN result.content :
                    /\ HasKey(Paragraphs[j], k)
                    /\ (\A j2 \in (j + 1)..Len(Paragraphs) : ~HasSeparator(Paragraphs[j2]))
                           => /\ result.content[k].t = "str"
                              /\ IsSplitOf(Paragraphs[j], k, result.content[k].v[1])

NOTE_LINE == <<"Note", ":", " ", "call", " ", "at", " ", "9", ":", "30">>

C4_Witness ==
    /\ pc = "parsed_st"
    /\ result # None
    /\ Paragraphs = <<NOTE_LINE>>
    /\ result.content = DictSet(EmptyDict, <<"Note">>,
                                Str(<<"call", " ", "at", " ", "9", ":", "30">>))

RECURSIVE FreeLines(_)
FreeLines(ps) ==
    IF ps = <<>> THEN <<>>
    ELSE IF Blank(Head(ps)) \/ HasSeparator(Head(ps)) THEN FreeLines(Tail(ps))
    ELSE <<strip(Head(ps))>> \o FreeLines(Tail(ps))

\* C5: every readable document yields a Record whose content.free_text is
\* exactly the trimmed non-blank paragraphs without ":", in order, and is
\* absent when there are none, whatever key:value paragraphs stand between.
C5_FreeTextExact ==
    (pc \in {"parsed_batch", "parsed_st"} /\ DocumentOpens(doc_file)
        /\ ~is_lock_file(doc_file.name)) =>
        /\ result # None
        /\ IF FreeLines(Paragraphs) = <<>>
           THEN FREE_TEXT \notin DOMAIN result.content
           ELSE /\ FREE_TEXT \in DOMAIN result.content
                /\ result.content[FREE_TEXT] = List(FreeLines(Paragraphs))

KeyParagraphs(k) == {j \in 1..Len(Paragraphs) : HasKey(Paragraphs[j], k)}

\* C6: in a Record of either parser, the key of every key:value paragraph
\* is a key of content, and content[k] is the value of the last key:value
\* paragraph whose trimmed key is k.
C6_LastDuplicateWins ==
    Parsed =>
        /\ \A j \in 1..Len(Paragraphs) :
               HasSeparator(Paragraphs[j]) =>
                   \E k \in DOMAIN result.content : HasKey(Paragraphs[j], k)
        /\ \A k \in DOMAIN result.content :
               KeyParagraphs(k) # {} =>
                   LET last == CHOOSE j \in KeyParagraphs(k) :
                                   \A j2 \in KeyParagraphs(k) : j2 <= j
                   IN  /\ result.content[k].t = "str"
                       /\ IsSplitOf(Paragraphs[last], k, result.content[k].v[1])

C6_Witness ==
    /\ pc = "parsed_batch"
    /\ result # None
    /\ Paragraphs = << <<"Name", ":", " ", "John", " ", "Doe">>,
                       <<"likes", " ", "hiking">>,
                       <<" ", "Name", " ", ":", "Jane">> >>
    /\ result.content[<<"Name">>] = Str(<<"Jane">>)

NonBlank == {j \in 1..Len(Paragraphs) : ~Blank(Paragraphs[j])}
KeyValue == {j \in NonBlank : HasSeparator(Paragraphs[j])}
FreeText == {j \in NonBlank : ~HasSeparator(Paragraphs[j])}

\* C7 as stated: every Record of either parser carries total_paragraphs,
\* the number of all paragraphs, and content_paragraphs, the number of
\* non-blank ones.
C7_BothCountsAlways ==
    Parsed =>
        /\ result.metadata.total_paragraphs = Len(Paragraphs)
        /\ "content_paragraphs" \in DOMAIN result.metadata
        /\ result.metadata.content_paragraphs = Cardinality(NonBlank)

\* C7 amended: every Record carries total_paragraphs, the number of all
\* paragraphs; a Record of the interactive parser also carries
\* content_paragraphs, the number of non-blank paragraphs, which is the
\* number of key:value plus free-text paragraphs and at most the total; a
\* Record of the batch parser carries no content_paragraphs.
C7_Counts ==
    Parsed =>
        /\ result.metadata.total_paragraphs = Len(Paragraphs)
        /\ pc = "parsed_batch" => "content_paragraphs" \notin DOMAIN result.metadata
        /\ pc = "parsed_st" =>
               /\ "content_paragraphs" \in DOMAIN result.metadata
               /\ result.metadata.content_paragraphs = Cardinality(NonBlank)
               /\ result.metadata.content_paragraphs
                      = Cardinality(KeyValue) + Cardinality(FreeText)
               /\ result.metadata.content_paragraphs <= result.metadata.total_paragraphs

C7_Witness ==
    /\ pc = "parsed_st"
    /\ result # None
    /\ Len(Paragraphs) = 3
    /\ result.metadata.total_paragraphs = 3
    /\ result.metadata.content_paragraphs = 2
    /\ Cardinality(KeyValue) = 1
    /\ Cardinality(FreeText) = 1

ValidPackage == doc_file.zip = "ok" /\ RequiredSet \subseteq doc_file.entries

\* C8: a source that is no valid package, or lacks a required file, makes
\* the interactive parser return None with one error shown and without a
\* call of Document(); the error of a package that lacks a required file
\* names a file that is absent.
C8_InvalidFormat ==
    (pc = "parsed_st" /\ ~ValidPackage) =>
        /\ result = None
        /\ ~opened
        /\ Len(ui) = 1
        /\ ui[1].level = "error"
        /\ doc_file.zip = "ok" =>
               /\ ui[1].msg = "Missing required file"
               /\ ui[1].entry \in RequiredSet \ doc_file.entries

C8_Witness ==
    /\ pc = "parsed_st"
    /\ doc_file.zip = "ok"
    /\ doc_file.entries = {DOCUMENT_XML}
    /\ result = None
    /\ ~opened
    /\ ui[1].entry = CONTENT_TYPES

AllBlank == \A j \in 1..Len(Paragraphs) : Blank(Paragraphs[j])

Warned == \E i \in 1..Len(ui) : ui[i].level = "warning"

\* C9: a readable document has an empty content mapping exactly when it has
\* no non-blank paragraph; the interactive parser then still returns the
\* Record and shows a warning (and shows none otherwise), and
\* convert_single_file writes the Record and returns its path.
C9_EmptyContentIsWarning ==
    /\ Parsed => (result.content = EmptyDict <=> AllBlank)
    /\ (pc = "parsed_st" /\ result # None) => (Warned <=> result.content = EmptyDict)
    /\ (pc = "parsed_st" /\ DocumentOpens(doc_file) /\ AllBlank) =>
           /\ result # None
           /\ ui = <<[level |-> "warning", name |-> doc_file.name,
                      msg |-> "No content found", entry |-> ""]>>
    /\ (pc = "converted" /\ DocumentOpens(doc_file) /\ AllBlank
            /\ ~is_lock_file(doc_file.name)) =>
           /\ result # None
           /\ Len(written) = 1
           /\ written[1].path = result.path
           /\ written[1].data.content = EmptyDict

C9_Witness ==
    /\ pc = "converted"
    /\ doc_file.paragraphs = << <<" ">> >>
    /\ result = PathVal(<<"a">> \o JSON)
    /\ Len(written) = 1
    /\ written[1].data.content = EmptyDict

\* C10: with no destination, convert_single_file derives the output path
\* from a source path that ends in ".docx" by replacing that trailing
\* extension alone; it returns the path when parsing succeeds, and returns
\* None and writes nothing when parsing fails.
C10_TrailingExtensionOnly ==
    (pc = "converted" /\ falsy_path(output_path) /\ endswith(doc_file.name, DOCX)) =>
        /\ result = None <=> batch_parse_doc_to_dict(doc_file.name, doc_file) = None
        /\ result = None => written = <<>>
        /\ result # None =>
               /\ result.path
                      = SubSeq(doc_file.name, 1, Len(doc_file.name) - Len(DOCX)) \o JSON
               /\ Len(written) = 1
               /\ written[1].path = result.path

(***************************************************************************)
(* convert_docx_to_json.py: convert_folder                                 *)
(***************************************************************************)
\* os.path.join of a directory and a relative path
join(a, b) == a \o <<"/">> \o b

\* os.path.relpath of a directory at or under start
relpath(root, start) ==
    IF root = start THEN <<".">> ELSE SubSeq(root, Len(start) + 2, Len(root))

LastIndexOf(p, c) ==
    LET at == {i \in 1..Len(p) : p[i] = c}
    IN  IF at = {} THEN 0 ELSE CHOOSE i \in at : \A j \in at : j <= i

\* os.path.splitext: the extension starts at the last "." after the last
\* separator, unless only "." precede it in the file name
splitext(p) ==
    LET sep == LastIndexOf(p, "/")
        dot == LastIndexOf(p, ".")
    IN  IF dot > sep /\ \E j \in (sep + 1)..(dot - 1) : p[j] # "."
        THEN <<SubSeq(p, 1, dot - 1), SubSeq(p, dot, Len(p))>>
        ELSE <<p, <<>>>>

docx_folder == <<"i", "n">>

target_root == IF falsy_path(json_folder) THEN docx_folder ELSE json_folder.path

\* json_path of the file found in directory root under the name filename
json_path_of(root, filename) ==
    join(join(target_root, relpath(root, docx_folder)), splitext(filename)[1] \o JSON)

\* the call returns converted_files alone: no list of failures
failed_files == <<>>

NAME_TXT == <<"a", ".", "t", "x", "t">>

FileNames == {NAME_A, NAME_LOCK, DOCX, DOCX \o DOCX, NAME_TXT}

Roots == {docx_folder, join(docx_folder, <<"s">>)}

BatchDocs(name) ==
    {Package(name, "badzip", {}, FALSE, <<>>),
     Package(name, "ok", RequiredSet, TRUE, <<>>),
     Package(name, "ok", RequiredSet, TRUE,
             << <<"free_text", ":", " ", "x">>, <<"likes", " ", "hiking">> >>)}

\* a file of every name, readable and empty; under the plain name also
\* an unreadable file and one whose parsing raises
WalkFiles ==
    UNION {[root : Roots, filename : {n},
            src : IF n = NAME_A THEN BatchDocs(n)
                  ELSE {Package(n, "ok", RequiredSet, TRUE, <<>>)}] : n \in FileNames}

\* os.walk, top down, yields f next: every file once, the files of the root
\* before those of its subdirectory
Yields(f) ==
    /\ Len(walk) < MaxFiles
    /\ \A i \in 1..Len(walk) :
           /\ (walk[i].root # f.root \/ walk[i].filename # f.filename)
           /\ (f.root = docx_folder => walk[i].root = docx_folder)

BatchInit ==
    /\ pc = "walk"
    /\ walk = <<>>
    /\ json_folder \in {None, PathVal(<<"o", "u", "t">>)}
    /\ idx = 1
    /\ converted_files = <<>>
    /\ parse_calls = <<>>
    /\ printed = <<>>
    /\ written = <<>>
    /\ doc_file = None
    /\ output_path = None
    /\ result = None
    /\ ui = <<>>
    /\ opened = FALSE

\* a file whose name does not end in ".docx": the loop goes on
SkipOtherFile(f) ==
    /\ pc = "walk"
    /\ Yields(f)
    /\ ~endswith(f.filename, DOCX)
    /\ walk' = Append(walk, f)
    /\ parse_calls' = Append(parse_calls, 0)
    /\ idx' = idx + 1
    /\ UNCHANGED <<pc, doc_file, output_path, result, ui, opened, written,
                   json_folder, converted_files, printed>>

\* data = self.parse_doc_to_dict(doc_path); if not data: continue
\* (an exception that left parse_doc_to_dict would leave convert_folder)
SkipUnparsed(f) ==
    /\ pc = "walk"
    /\ Yields(f)
    /\ endswith(f.filename, DOCX)
    /\ LET doc_path == join(f.root, f.filename)
       IN  /\ batch_outcome(doc_path, f.src) = "raise"
                  \/ ~truthy(batch_parse_doc_to_dict(doc_path, f.src))
           /\ printed' = printed \o batch_parse_prints(doc_path, f.src)
           /\ IF batch_outcome(doc_path, f.src) = "raise"
              THEN pc' = "raised" /\ idx' = idx
              ELSE pc' = pc /\ idx' = idx + 1
    /\ walk' = Append(walk, f)
    /\ parse_calls' = Append(parse_calls, 1)
    /\ UNCHANGED <<doc_file, output_path, result, ui, opened, written,
                   json_folder, converted_files>>

\* the rest of the loop body: the JSON file is written under the mirrored
\* directory and its path appended to converted_files
ConvertFile(f) ==
    /\ pc = "walk"
    /\ Yields(f)
    /\ endswith(f.filename, DOCX)
    /\ LET doc_path == join(f.root, f.filename)
           json_path == json_path_of(f.root, f.filename)
       IN  /\ batch_outcome(doc_path, f.src) # "raise"
           /\ truthy(batch_parse_doc_to_dict(doc_path, f.src))
           /\ written' = Append(written,
                                [path |-> json_path,
                                 data |-> batch_parse_doc_to_dict(doc_path, f.src)])
           /\ converted_files' = Append(converted_files, json_path)
           /\ printed' = printed \o batch_parse_prints(doc_path, f.src)
                             \o <<[msg |-> "Converted", path |-> doc_path,
                                   json_path |-> json_path]>>
    /\ walk' = Append(walk, f)
    /\ parse_calls' = Append(parse_calls, 1)
    /\ idx' = idx + 1
    /\ UNCHANGED <<pc, doc_file, output_path, result, ui, opened, json_folder>>

\* os.walk is exhausted: return converted_files
Return ==
    /\ pc = "walk"
    /\ pc' = "returned"
    /\ result' = [converted_files |-> converted_files]
    /\ UNCHANGED <<doc_file, output_path, ui, opened, written, walk, json_folder, idx,
                   converted_files, parse_calls, printed>>

BatchNext ==
    \/ \E f \in WalkFiles : SkipOtherFile(f)
    \/ \E f \in WalkFiles : SkipUnparsed(f)
    \/ \E f \in WalkFiles : ConvertFile(f)
    \/ Return

\* the loop is sequential and blocking and the tree is finite: a step that
\* can be taken is taken
BatchSpec == BatchInit /\ [][BatchNext]_vars /\ WF_vars(BatchNext)

(***************************************************************************)
(* Properties of convert_folder                                            *)
(***************************************************************************)
PathAt(i) == join(walk[i].root, walk[i].filename)

IsDocx(i) == endswith(walk[i].filename, DOCX)

IsLock(i) == startswith(walk[i].filename, LOCK)

\* the i-th file is one parse_doc_to_dict returns data for
Parses(i) == IsDocx(i) /\ batch_parse_doc_to_dict(PathAt(i), walk[i].src) # None

ConvertedMessages == {k \in 1..Len(printed) : printed[k].msg = "Converted"}

WrittenAt(path) == {k \in 1..Len(written) : written[k].path = path}

C1_Safe ==
    /\ pc \in {"walk", "returned"}
    /\ pc = "returned" => idx = Len(walk) + 1
    /\ Len(parse_calls) = Len(walk)
    /\ \A i \in 1..Len(walk) :
           /\ parse_calls[i] = IF IsDocx(i) THEN 1 ELSE 0
           /\ Parses(i) =>
                  \E k \in ConvertedMessages :
                      /\ printed[k].path = PathAt(i)
                      /\ WrittenAt(printed[k].json_path) # {}

\* C1: whatever the files and their parse outcomes, the batch passes every
\* file whose name ends in ".docx" to the parser exactly once, a failed or
\* skipped file stops neither the parsing nor the writing of a later one,
\* no exception leaves the call, and the call returns after the last file.
C1_FailSoftComplete == [](C1_Safe) /\ <>(pc = "returned")

C1_Witness ==
    /\ pc = "returned"
    /\ Len(walk) = 3
    /\ IsLock(1)
    /\ IsDocx(2) /\ ~IsLock(2) /\ ~Parses(2)
    /\ Parses(3)
    /\ parse_calls = <<1, 1, 1>>
    /\ Len(written) = 1
    /\ result.converted_files = <<printed[Len(printed)].json_path>>

InSuccessList(i) ==
    \E k \in ConvertedMessages :
        /\ printed[k].path = PathAt(i)
        /\ \E n \in 1..Len(result.converted_files) :
               result.converted_files[n] = printed[k].json_path

InFailureList(i) == \E n \in 1..Len(failed_files) : failed_files[n].path = PathAt(i)

\* C2: the value a batch returns accounts for every discovered document:
\* each ".docx" file that is no lock file is in exactly one of the success
\* list and the failure list, so that succeeded + failed is the number of
\* such files; a lock file is in neither list and has no output file.
C2_EveryDocumentAccounted ==
    pc = "returned" =>
        /\ \A i \in 1..Len(walk) :
               (IsDocx(i) /\ ~IsLock(i)) => (InSuccessList(i) <=> ~InFailureList(i))
        /\ Len(result.converted_files) + Len(failed_files)
               = Cardinality({i \in 1..Len(walk) : IsDocx(i) /\ ~IsLock(i)})
        /\ \A i \in 1..Len(walk) :
               IsLock(i) =>
                   /\ ~InSuccessList(i)
                   /\ ~InFailureList(i)
                   /\ \A k \in 1..Len(written) :
                          written[k].data.metadata.source_file # walk[i].filename

\* destinationRoot/<rel>/<base>.json for sourceRoot/<rel>/<base>.docx
MirrorPath(i) ==
    join(join(target_root, relpath(walk[i].root, docx_folder)),
         SubSeq(walk[i].filename, 1, Len(walk[i].filename) - Len(DOCX)) \o JSON)

RECURSIVE MirrorPathsFrom(_)
MirrorPathsFrom(i) ==
    IF i > Len(walk) THEN <<>>
    ELSE (IF Parses(i) THEN <<MirrorPath(i)>> ELSE <<>>) \o MirrorPathsFrom(i + 1)

\* C3: the output tree of a batch mirrors its input tree: every parsed
\* document sourceRoot/<rel>/<base>.docx has exactly one JSON file written,
\* at destinationRoot/<rel>/<base>.json, distinct documents have distinct
\* output paths, and the list returned holds these paths in the order of
\* enumeration.
C3_OutputMirrorsInput ==
    pc = "returned" =>
        /\ \A i \in 1..Len(walk) :
               Parses(i) => Cardinality(WrittenAt(MirrorPath(i))) = 1
        /\ \A k1, k2 \in ConvertedMessages :
               printed[k1].path # printed[k2].path
                   => printed[k1].json_path # printed[k2].json_path
        /\ Len(written) = Cardinality({i \in 1..Len(walk) : Parses(i)})
        /\ result.converted_files = MirrorPathsFrom(1)

====
